---- MODULE Spec2Model ----
(***************************************************************************)
(* Model of app/defect_detection.py: the inspection loop, the background   *)
(* relay pulse threads, the trigger debounce of wait_for_resume_signal,    *)
(* the shared web telemetry (latest_frame, live_stats) and its readers,    *)
(* and the shutdown cleanup.  Sleeps are scheduling points: a thread that  *)
(* sleeps may be overtaken by any number of steps of the other threads.    *)
(***************************************************************************)
EXTENDS Integers, Naturals, Sequences, FiniteSets, TLC

\* ---------------------------------------------------------------- bounds
MaxFrames == 2      \* frames the camera delivers in a run

\* len(boxes) of one frame: none, one, several (predict is called with
\* max_det = 50)
DetectionCounts == {0, 1, 2}

\* ------------------------------------------------------ program constants
DEBOUNCE_COUNT == 5

HIGH == "HIGH"
LOW == "LOW"
None == 0           \* latest_frame before the first publication

\* A display is attached, so the 'q' key can end the loop; the runs of a
\* headless process are the runs of this model in which Quit never fires.
HAS_DISPLAY == TRUE

VARIABLES
    RELAY_ENABLED,      \* RELAY_ENABLED and GPIO: digital I/O usable
    ENABLE_WEB,
    pc,                 \* position of the main thread
    relay_status,
    relay_pin,          \* level of the relay output line (LOW = relay ON)
    trigger_pin,        \* level of the trigger input line
    gpio_setup,         \* channels set up (until GPIO.cleanup())
    frame_count,
    defect_count,
    defect_frame_count,
    defect_log,         \* frame index of every logged detection
    buf_held,           \* camera image buffer held by the loop
    initial,            \* wait_for_resume_signal: level read at entry
    high_count,         \* wait_for_resume_signal: debounce counter
    pulse,              \* number of pulse_relay threads at each position
    latest_frame,       \* frame index of the published frame, None if absent
    live_stats,
    frame_lock,         \* holder of frame_lock
    mjpeg_pc,           \* position of a generate_mjpeg reader
    obs_frame,          \* frame the observer obtained from the stream
    obs_order,          \* the observer has read: "none", "frame", "both" (frame, then counters)
    stats_cycle,        \* history: cycle in which each live_stats field was written
    obs_cycle,          \* history: stats_cycle of the counters the observer obtained
    active_run,         \* history: consecutive HIGH reads of the poll/debounce loop
    saw_low,            \* history: a LOW read happened in this wait
    gpio_used,          \* history: GPIO.input, GPIO.output or GPIO.cleanup has been called
    skipped,            \* history: the last acquisition returned no frame
    cam_open,           \* the camera device is open
    summary_printed,    \* the detection summary has been printed
    csv_log,            \* rows of the defect log written to the CSV file
    saved_images,       \* image files written to RESULTS_FOLDER
    pulses_started      \* history: pulse_relay threads started so far

vars == << RELAY_ENABLED, ENABLE_WEB, pc, relay_status, relay_pin,
           trigger_pin, gpio_setup, frame_count, defect_count,
           defect_frame_count, defect_log, buf_held, initial, high_count,
           pulse, latest_frame, live_stats, frame_lock, mjpeg_pc, obs_frame,
           obs_order, stats_cycle, obs_cycle, active_run, saw_low,
           gpio_used, skipped, cam_open, summary_printed, csv_log,
           saved_images, pulses_started >>

config == << RELAY_ENABLED, ENABLE_WEB >>
gpio == << relay_pin, gpio_setup, gpio_used >>
counters == << frame_count, defect_count, defect_frame_count, defect_log >>
waitvars == << initial, high_count, active_run, saw_low >>
web == << latest_frame, live_stats, stats_cycle >>
observer == << mjpeg_pc, obs_frame, obs_order, obs_cycle >>
shutdown == << cam_open, summary_printed, csv_log >>
effects == << saved_images, pulses_started >>

StatsFields == {"frame_count", "current_defects", "total_defects",
                "defect_frames_saved", "relay_status"}

\* Positions of the main thread inside the try block of the main loop.
LoopPcs == {"top", "acquire", "convert", "predict", "process", "spawn",
            "web_frame", "web_stats", "wait_enter", "wait_check",
            "wait_clear", "poll", "debounce", "resumed", "fps",
            "pub_frame", "pub_stats"}

\* Positions of a pulse_relay thread that has not ended: before
\* set_relay_status, before the LOW write, in the sleep before the HIGH write.
PulsePcs == {"start", "switch_on", "hold"}

\* Positions from the return of wait_for_resume_signal to the next acquisition.
AfterWaitPcs == {"resumed", "fps", "pub_frame", "pub_stats", "top", "acquire"}

set_relay_status(status) == relay_status' = status

LiveStatsInit ==
    [frame_count |-> 0, current_defects |-> 0, total_defects |-> 0,
     defect_frames_saved |-> 0, relay_status |-> "DETECTING"]

Init ==
    /\ RELAY_ENABLED \in BOOLEAN
    /\ ENABLE_WEB \in BOOLEAN
    /\ pc = "top"
    /\ relay_status = "DETECTING"
    /\ relay_pin = HIGH
    /\ trigger_pin = LOW
    /\ gpio_setup = RELAY_ENABLED
    /\ frame_count = 0
    /\ defect_count = 0
    /\ defect_frame_count = 0
    /\ defect_log = << >>
    /\ buf_held = FALSE
    /\ initial = LOW
    /\ high_count = 0
    /\ pulse = [x \in PulsePcs |-> 0]
    /\ latest_frame = None
    /\ live_stats = LiveStatsInit
    /\ frame_lock = "free"
    /\ mjpeg_pc = "idle"
    /\ obs_frame = None
    /\ obs_order = "none"
    /\ stats_cycle = [f \in StatsFields |-> 0]
    /\ obs_cycle = [f \in StatsFields |-> 0]
    /\ active_run = 0
    /\ saw_low = FALSE
    /\ gpio_used = FALSE
    /\ skipped = FALSE
    /\ cam_open = TRUE
    /\ summary_printed = FALSE
    /\ csv_log = << >>
    /\ saved_images = 0
    /\ pulses_started = 0

\* ------------------------------------------------------------ main loop

\* while True: set_relay_status("DETECTING")
LoopTop ==
    /\ pc = "top"
    /\ set_relay_status("DETECTING")
    /\ pc' = "acquire"
    /\ UNCHANGED << config, effects, shutdown, skipped, gpio, trigger_pin,
                    counters, buf_held, waitvars, pulse, web, frame_lock,
                    observer >>

\* ret = cam.MV_CC_GetImageBuffer(stOutFrame, 1000), ret == 0
AcquireOk ==
    /\ pc = "acquire"
    /\ frame_count < MaxFrames
    /\ buf_held' = TRUE
    /\ skipped' = FALSE
    /\ pc' = "convert"
    /\ UNCHANGED << config, effects, shutdown, relay_status, gpio,
                    trigger_pin, counters, waitvars, pulse, web, frame_lock,
                    observer >>

\* faulty variant: a failed acquisition ends the loop (break instead of continue)
AcquireTimeoutBreak ==
    /\ pc = "acquire"
    /\ skipped' = TRUE
    /\ pc' = "cleanup"
    /\ UNCHANGED << config, effects, shutdown, relay_status, gpio,
                    trigger_pin, counters, buf_held, waitvars, pulse, web,
                    frame_lock, observer >>

\* ret != 0: continue
AcquireTimeout ==
    /\ pc = "acquire"
    /\ skipped' = TRUE
    /\ pc' = "top"
    /\ UNCHANGED << config, effects, shutdown, relay_status, gpio,
                    trigger_pin, counters, buf_held, waitvars, pulse, web,
                    frame_lock, observer >>

\* faulty variant: the image buffer is not released after the copy
ConvertNoFree ==
    /\ pc = "convert"
    /\ UNCHANGED buf_held
    /\ frame_count' = frame_count + 1
    /\ pc' = "predict"
    /\ UNCHANGED << config, effects, shutdown, skipped, relay_status, gpio,
                    trigger_pin, defect_count, defect_frame_count, defect_log,
                    waitvars, pulse, web, frame_lock, observer >>

\* copy the pixels, cam.MV_CC_FreeImageBuffer(stOutFrame), frame_count += 1
ConvertAndFree ==
    /\ pc = "convert"
    /\ buf_held' = FALSE
    /\ frame_count' = frame_count + 1
    /\ pc' = "predict"
    /\ UNCHANGED << config, effects, shutdown, skipped, relay_status, gpio,
                    trigger_pin, defect_count, defect_frame_count, defect_log,
                    waitvars, pulse, web, frame_lock, observer >>

\* results = model.predict(...); defect_count = len(boxes)
Predict ==
    /\ pc = "predict"
    /\ \E d \in DetectionCounts :
        /\ defect_count' = d
        /\ pc' = IF d > 0 THEN "process" ELSE "fps"
    /\ UNCHANGED << config, effects, shutdown, skipped, relay_status, gpio,
                    trigger_pin, frame_count, defect_frame_count, defect_log,
                    buf_held, waitvars, pulse, web, frame_lock, observer >>

\* faulty variant: one defect_log row per frame instead of one per box
ProcessDetectionsOneRow ==
    /\ pc = "process"
    /\ defect_frame_count' = defect_frame_count + 1
    /\ defect_log' = Append(defect_log, frame_count)
    /\ pc' = "spawn"
    /\ UNCHANGED << config, effects, shutdown, skipped, relay_status, gpio,
                    trigger_pin, frame_count, defect_count, buf_held,
                    waitvars, pulse, web, frame_lock, observer >>

\* faulty variant: the frame is counted but no defect_log row is appended
ProcessDetectionsNoRows ==
    /\ pc = "process"
    /\ defect_frame_count' = defect_frame_count + 1
    /\ UNCHANGED defect_log
    /\ pc' = "spawn"
    /\ UNCHANGED << config, effects, shutdown, skipped, relay_status, gpio,
                    trigger_pin, frame_count, defect_count, buf_held,
                    waitvars, pulse, web, frame_lock, observer >>

\* if defect_count > 0: defect_frame_count += 1; one defect_log row per box
ProcessDetections ==
    /\ pc = "process"
    /\ defect_frame_count' = defect_frame_count + 1
    /\ defect_log' = defect_log \o [k \in 1..defect_count |-> frame_count]
    /\ pc' = "spawn"
    /\ UNCHANGED << config, effects, shutdown, skipped, relay_status, gpio,
                    trigger_pin, frame_count, defect_count, buf_held,
                    waitvars, pulse, web, frame_lock, observer >>

\* faulty variant: two pulse threads are started for one frame
StartPulseTwice ==
    /\ pc = "spawn"
    /\ pulse' = [pulse EXCEPT !["start"] = @ + 2]
    /\ pulses_started' = pulses_started + 2
    /\ pc' = IF ENABLE_WEB THEN "web_frame" ELSE "wait_enter"
    /\ UNCHANGED << config, saved_images, shutdown, skipped, relay_status,
                    gpio, trigger_pin, counters, buf_held, waitvars, web,
                    frame_lock, observer >>

\* relay_thread = threading.Thread(target=pulse_relay, daemon=True).start()
StartPulse ==
    /\ pc = "spawn"
    /\ pulse' = [pulse EXCEPT !["start"] = @ + 1]
    /\ pulses_started' = pulses_started + 1
    /\ pc' = IF ENABLE_WEB THEN "web_frame" ELSE "wait_enter"
    /\ UNCHANGED << config, saved_images, shutdown, skipped, relay_status,
                    gpio, trigger_pin, counters, buf_held, waitvars, web,
                    frame_lock, observer >>

\* with frame_lock: latest_frame = display_frame.copy()   (defect branch)
DefectWebFrame ==
    /\ pc = "web_frame"
    /\ frame_lock = "free"
    /\ latest_frame' = frame_count
    /\ pc' = "web_stats"
    /\ UNCHANGED << config, effects, shutdown, skipped, relay_status, gpio,
                    trigger_pin, counters, buf_held, waitvars, pulse,
                    live_stats, stats_cycle, frame_lock, observer >>

\* faulty variant: the defect-time update stores a status outside the documented values
DefectWebStatsStopped ==
    /\ pc = "web_stats"
    /\ live_stats' = [live_stats EXCEPT !.relay_status = "STOPPED",
                                        !.current_defects = defect_count]
    /\ stats_cycle' = [stats_cycle EXCEPT !["relay_status"] = frame_count,
                                          !["current_defects"] = frame_count]
    /\ pc' = "wait_enter"
    /\ UNCHANGED << config, effects, shutdown, skipped, relay_status, gpio,
                    trigger_pin, counters, buf_held, waitvars, pulse,
                    latest_frame, frame_lock, observer >>

\* with stats_lock: relay_status = "DEFECT_STOP"; current_defects = defect_count
DefectWebStats ==
    /\ pc = "web_stats"
    /\ live_stats' = [live_stats EXCEPT !.relay_status = "DEFECT_STOP",
                                        !.current_defects = defect_count]
    /\ stats_cycle' = [stats_cycle EXCEPT !["relay_status"] = frame_count,
                                          !["current_defects"] = frame_count]
    /\ pc' = "wait_enter"
    /\ UNCHANGED << config, effects, shutdown, skipped, relay_status, gpio,
                    trigger_pin, counters, buf_held, waitvars, pulse,
                    latest_frame, frame_lock, observer >>

\* ------------------------------------------- wait_for_resume_signal

\* level returned by GPIO.input(TRIGGER_PIN)
gpio_input == trigger_pin

\* faulty variant: the stale-signal clearing loop is skipped
needs_clear_never(level) == FALSE

\* if initial == 'HIGH': wait for LOW first
needs_clear(level) == level = HIGH

\* faulty variant: the count of a rejected attempt is carried into the next one
debounce_start_carry == high_count

\* high_count = 0 on every observed HIGH of the poll loop
debounce_start == 0

\* faulty variant: every confirmation sample is counted, whatever it reads
debounce_ok_any(level) == TRUE

\* faulty variant: no sample of the debounce loop is ever accepted
debounce_ok_never(level) == FALSE

\* if GPIO.input(TRIGGER_PIN) == GPIO.HIGH: high_count += 1 / else: break
debounce_ok(level) == level = HIGH

\* set_relay_status("WAITING_RESUME") on entry
WaitEnter ==
    /\ pc = "wait_enter"
    /\ set_relay_status("WAITING_RESUME")
    /\ high_count' = 0
    /\ active_run' = 0
    /\ saw_low' = FALSE
    /\ pc' = "wait_check"
    /\ UNCHANGED << config, effects, shutdown, skipped, gpio, trigger_pin,
                    counters, buf_held, initial, pulse, web, frame_lock,
                    observer >>

\* faulty variant: the trigger line is read without testing RELAY_ENABLED and GPIO
WaitCheckNoTest ==
    /\ pc = "wait_check"
    /\ initial' = gpio_input
    /\ saw_low' = (gpio_input = LOW)
    /\ pc' = IF needs_clear(gpio_input) THEN "wait_clear" ELSE "poll"
    /\ gpio_used' = TRUE
    /\ UNCHANGED << config, effects, shutdown, skipped, relay_status,
                    relay_pin, gpio_setup, trigger_pin, counters, buf_held,
                    high_count, active_run, pulse, web, frame_lock,
                    observer >>

\* if RELAY_ENABLED and GPIO: initial = GPIO.input(...)  /  else: return
WaitCheck ==
    /\ pc = "wait_check"
    /\ IF RELAY_ENABLED
       THEN /\ initial' = gpio_input
                    /\ saw_low' = (gpio_input = LOW)
            /\ pc' = IF needs_clear(gpio_input) THEN "wait_clear" ELSE "poll"
       ELSE /\ pc' = "resumed"
            /\ UNCHANGED << initial, saw_low >>
    /\ gpio_used' = (gpio_used \/ RELAY_ENABLED)
    /\ UNCHANGED << config, effects, shutdown, skipped, relay_status,
                    relay_pin, gpio_setup, trigger_pin, counters, buf_held,
                    high_count, active_run, pulse, web, frame_lock,
                    observer >>

\* while GPIO.input(TRIGGER_PIN) == GPIO.HIGH: sleep; then settle
WaitClear ==
    /\ pc = "wait_clear"
    /\ IF gpio_input = HIGH
       THEN UNCHANGED << pc, saw_low >>
       ELSE /\ saw_low' = TRUE
            /\ pc' = "poll"
    /\ gpio_used' = TRUE
    /\ UNCHANGED << config, effects, shutdown, skipped, relay_status,
                    relay_pin, gpio_setup, trigger_pin, counters, buf_held,
                    initial, high_count, active_run, pulse, web, frame_lock,
                    observer >>

\* while True: pin_state = GPIO.input(TRIGGER_PIN); if HIGH: high_count = 0
Poll ==
    /\ pc = "poll"
    /\ IF gpio_input = HIGH
       THEN /\ high_count' = debounce_start
            /\ active_run' = 1
            /\ pc' = "debounce"
            /\ UNCHANGED saw_low
       ELSE /\ active_run' = 0
            /\ saw_low' = TRUE
            /\ UNCHANGED << pc, high_count >>
    /\ gpio_used' = TRUE
    /\ UNCHANGED << config, effects, shutdown, skipped, relay_status,
                    relay_pin, gpio_setup, trigger_pin, counters, buf_held,
                    initial, pulse, web, frame_lock, observer >>

\* one iteration of for i in range(DEBOUNCE_COUNT), and the test after the
\* loop: return on high_count == DEBOUNCE_COUNT, else back to polling
Debounce ==
    /\ pc = "debounce"
    /\ IF debounce_ok(gpio_input)
       THEN /\ high_count' = high_count + 1
            /\ pc' = IF high_count + 1 = DEBOUNCE_COUNT THEN "resumed"
                     ELSE "debounce"
       ELSE /\ pc' = "poll"
            /\ UNCHANGED high_count
    /\ IF gpio_input = HIGH
       THEN /\ active_run' = active_run + 1
            /\ UNCHANGED saw_low
       ELSE /\ active_run' = 0
            /\ saw_low' = TRUE
    /\ gpio_used' = TRUE
    /\ UNCHANGED << config, effects, shutdown, skipped, relay_status,
                    relay_pin, gpio_setup, trigger_pin, counters, buf_held,
                    initial, pulse, web, frame_lock, observer >>

\* faulty variant: the loop joins the pulse thread before it resumes
ResumedAfterJoin ==
    /\ pc = "resumed"
    /\ pulse = [x \in PulsePcs |-> 0]
    /\ set_relay_status("DETECTING")
    /\ initial' = LOW
    /\ pc' = "fps"
    /\ UNCHANGED << config, effects, shutdown, skipped, gpio, trigger_pin,
                    counters, buf_held, high_count, active_run, saw_low,
                    pulse, web, frame_lock, observer >>

\* back in the main loop: set_relay_status("DETECTING")
Resumed ==
    /\ pc = "resumed"
    /\ set_relay_status("DETECTING")
    /\ initial' = LOW
    /\ pc' = "fps"
    /\ UNCHANGED << config, effects, shutdown, skipped, gpio, trigger_pin,
                    counters, buf_held, high_count, active_run, saw_low,
                    pulse, web, frame_lock, observer >>

\* ------------------------------------------------- end of the cycle

\* The readers are not followed past the main loop (see Serving): leaving
\* the loop ends the observation in progress.
Leave(to) ==
    /\ pc' = to
    /\ skipped' = FALSE
    /\ initial' = LOW
    /\ high_count' = 0
    /\ active_run' = 0
    /\ saw_low' = FALSE
    /\ frame_lock' = "free"
    /\ mjpeg_pc' = "idle"
    /\ obs_frame' = None
    /\ obs_order' = "none"
    /\ obs_cycle' = [f \in StatsFields |-> 0]

\* break, or KeyboardInterrupt caught by the except clause: the statements
\* after the try block run next
LeaveLoop == Leave("cleanup")

\* FPS, overlay, display: the loop goes on to the publication
FpsAndDisplay ==
    /\ pc = "fps"
    /\ pc' = IF ENABLE_WEB THEN "pub_frame" ELSE "top"
    /\ UNCHANGED << config, effects, shutdown, skipped, relay_status, gpio,
                    trigger_pin, counters, buf_held, waitvars, pulse, web,
                    frame_lock, observer >>

\* if HAS_DISPLAY: key == ord('q'): break
Quit ==
    /\ pc = "fps"
    /\ HAS_DISPLAY
    /\ LeaveLoop
    /\ UNCHANGED << config, effects, shutdown, relay_status, gpio,
                    trigger_pin, counters, buf_held, pulse, web >>

\* with frame_lock: latest_frame = display_frame.copy()
PublishFrame ==
    /\ pc = "pub_frame"
    /\ frame_lock = "free"
    /\ latest_frame' = frame_count
    /\ pc' = "pub_stats"
    /\ UNCHANGED << config, effects, shutdown, skipped, relay_status, gpio,
                    trigger_pin, counters, buf_held, waitvars, pulse,
                    live_stats, stats_cycle, frame_lock, observer >>

\* faulty variant: the count of the current frame is cleared before the publication
PublishStatsCleared ==
    /\ pc = "pub_stats"
    /\ live_stats' = [frame_count |-> frame_count,
                      current_defects |-> 0,
                      total_defects |-> Len(defect_log),
                      defect_frames_saved |-> defect_frame_count,
                      relay_status |-> relay_status]
    /\ stats_cycle' = [f \in StatsFields |-> frame_count]
    /\ pc' = "top"
    /\ UNCHANGED << config, effects, shutdown, skipped, relay_status, gpio,
                    trigger_pin, counters, buf_held, waitvars, pulse,
                    latest_frame, frame_lock, observer >>

\* with stats_lock: live_stats[...] = ...
PublishStats ==
    /\ pc = "pub_stats"
    /\ live_stats' = [frame_count |-> frame_count,
                      current_defects |-> defect_count,
                      total_defects |-> Len(defect_log),
                      defect_frames_saved |-> defect_frame_count,
                      relay_status |-> relay_status]
    /\ stats_cycle' = [f \in StatsFields |-> frame_count]
    /\ pc' = "top"
    /\ UNCHANGED << config, effects, shutdown, skipped, relay_status, gpio,
                    trigger_pin, counters, buf_held, waitvars, pulse,
                    latest_frame, frame_lock, observer >>

\* except KeyboardInterrupt
Interrupt ==
    /\ pc \in LoopPcs
    /\ LeaveLoop
    /\ UNCHANGED << config, effects, shutdown, relay_status, gpio,
                    trigger_pin, counters, buf_held, pulse, web >>

\* an exception other than KeyboardInterrupt raised inside the try block, here
\* by model.predict: no except clause matches and the statements after the
\* try block are not in a finally clause, so the process ends with a traceback
PredictError ==
    /\ pc = "predict"
    /\ Leave("crashed")
    /\ UNCHANGED << config, effects, shutdown, relay_status, gpio,
                    trigger_pin, counters, buf_held, pulse, web >>

\* ------------------------------------------------------------ cleanup

\* if RELAY_ENABLED and GPIO: GPIO.output(RELAY_PIN, GPIO.HIGH)
CleanupRelayOff ==
    /\ pc = "cleanup"
    /\ IF RELAY_ENABLED
       THEN /\ relay_pin' = HIGH
            /\ pc' = "gpio_cleanup"
       ELSE /\ pc' = "summary"
            /\ UNCHANGED relay_pin
    /\ gpio_used' = (gpio_used \/ RELAY_ENABLED)
    /\ UNCHANGED << config, effects, shutdown, skipped, relay_status,
                    gpio_setup, trigger_pin, counters, buf_held, waitvars,
                    pulse, web, frame_lock, observer >>

\* GPIO.cleanup()
GpioCleanup ==
    /\ pc = "gpio_cleanup"
    /\ gpio_setup' = FALSE
    /\ pc' = "summary"
    /\ gpio_used' = TRUE
    /\ UNCHANGED << config, effects, shutdown, skipped, relay_status,
                    relay_pin, trigger_pin, counters, buf_held, waitvars,
                    pulse, web, frame_lock, observer >>

\* cam.MV_CC_StopGrabbing() ... MvCamera.MV_CC_Finalize(); the summary is
\* printed; if defect_log: the log is written to the CSV file; the process
\* ends and its daemon threads with it
Summary ==
    /\ pc = "summary"
    /\ cam_open' = FALSE
    /\ summary_printed' = TRUE
    /\ csv_log' = defect_log
    /\ pc' = "exited"
    /\ UNCHANGED << config, effects, skipped, relay_status, gpio, trigger_pin,
                    counters, buf_held, waitvars, pulse, web, frame_lock,
                    observer >>

\* ------------------------------------------------- pulse_relay threads

Running == pc \notin {"exited", "crashed"}

\* one thread moves from position p to position q (q = "end": it has ended)
Move(p, q) ==
    pulse' = [x \in PulsePcs |->
                IF x = p THEN pulse[x] - 1
                ELSE IF x = q THEN pulse[x] + 1
                ELSE pulse[x]]

\* set_relay_status("RELAY_ON")
PulseSetStatus ==
    /\ Running
    /\ pulse["start"] > 0
    /\ set_relay_status("RELAY_ON")
    /\ Move("start", "switch_on")
    /\ UNCHANGED << config, effects, shutdown, skipped, pc, gpio, trigger_pin,
                    counters, buf_held, waitvars, web, frame_lock, observer >>

\* if RELAY_ENABLED and GPIO: GPIO.output(RELAY_PIN, GPIO.LOW)
\* (GPIO.output raises on a channel that GPIO.cleanup() has released, which
\* ends the thread)
PulseOn ==
    /\ Running
    /\ pulse["switch_on"] > 0
    /\ IF RELAY_ENABLED
       THEN IF gpio_setup
            THEN /\ relay_pin' = LOW
                 /\ Move("switch_on", "hold")
            ELSE /\ Move("switch_on", "end")
                 /\ UNCHANGED relay_pin
       ELSE /\ Move("switch_on", "hold")
            /\ UNCHANGED relay_pin
    /\ gpio_used' = (gpio_used \/ RELAY_ENABLED)
    /\ UNCHANGED << config, effects, shutdown, skipped, pc, relay_status,
                    gpio_setup, trigger_pin, counters, buf_held, waitvars,
                    web, frame_lock, observer >>

\* faulty variant: the thread marks the wait for the resume signal when its pulse ends
PulseOffThenWaiting ==
    /\ Running
    /\ pulse["hold"] > 0
    /\ IF RELAY_ENABLED /\ gpio_setup
       THEN relay_pin' = HIGH
       ELSE UNCHANGED relay_pin
    /\ Move("hold", "end")
    /\ set_relay_status("WAITING_RESUME")
    /\ gpio_used' = (gpio_used \/ RELAY_ENABLED)
    /\ UNCHANGED << config, effects, shutdown, skipped, pc, gpio_setup,
                    trigger_pin, counters, buf_held, waitvars, web,
                    frame_lock, observer >>

\* faulty variant: the thread ends after its sleep without switching the relay off
PulseOffNoWrite ==
    /\ Running
    /\ pulse["hold"] > 0
    /\ Move("hold", "end")
    /\ UNCHANGED << config, effects, shutdown, skipped, pc, relay_status,
                    gpio, trigger_pin, counters, buf_held, waitvars, web,
                    frame_lock, observer >>

\* faulty variant: the write after the sleep drives the line LOW again
PulseOffWrongLevel ==
    /\ Running
    /\ pulse["hold"] > 0
    /\ IF RELAY_ENABLED /\ gpio_setup
       THEN relay_pin' = LOW
       ELSE UNCHANGED relay_pin
    /\ Move("hold", "end")
    /\ gpio_used' = (gpio_used \/ RELAY_ENABLED)
    /\ UNCHANGED << config, effects, shutdown, skipped, pc, relay_status,
                    gpio_setup, trigger_pin, counters, buf_held, waitvars,
                    web, frame_lock, observer >>

\* time.sleep(RELAY_ON_DURATION); GPIO.output(RELAY_PIN, GPIO.HIGH)
PulseOff ==
    /\ Running
    /\ pulse["hold"] > 0
    /\ IF RELAY_ENABLED /\ gpio_setup
       THEN relay_pin' = HIGH
       ELSE UNCHANGED relay_pin
    /\ Move("hold", "end")
    /\ gpio_used' = (gpio_used \/ RELAY_ENABLED)
    /\ UNCHANGED << config, effects, shutdown, skipped, pc, relay_status,
                    gpio_setup, trigger_pin, counters, buf_held, waitvars,
                    web, frame_lock, observer >>

pulse_relay == PulseSetStatus \/ PulseOn \/ PulseOff

\* --------------------------------------------------- telemetry readers

\* The web server thread runs when ENABLE_WEB is set.  The store is written
\* only inside the main loop, so what a reader obtains during the cleanup it
\* can also obtain in the state the loop was left in: reads are modelled there.
Serving == ENABLE_WEB /\ pc \in LoopPcs

\* faulty variant: the frame is encoded without the test for None
MjpegLockNoCheck ==
    /\ Serving
    /\ mjpeg_pc = "idle"
    /\ frame_lock = "free"
    /\ frame_lock' = "mjpeg"
    /\ mjpeg_pc' = "encode"
    /\ UNCHANGED << config, effects, shutdown, skipped, pc, relay_status,
                    gpio, trigger_pin, counters, buf_held, waitvars, pulse,
                    web, obs_frame, obs_order, obs_cycle >>

\* generate_mjpeg: with frame_lock: if latest_frame is None
MjpegLock ==
    /\ Serving
    /\ mjpeg_pc = "idle"
    /\ frame_lock = "free"
    /\ frame_lock' = "mjpeg"
    /\ mjpeg_pc' = IF latest_frame = None THEN "sleep_locked" ELSE "encode"
    /\ UNCHANGED << config, effects, shutdown, skipped, pc, relay_status,
                    gpio, trigger_pin, counters, buf_held, waitvars, pulse,
                    web, obs_frame, obs_order, obs_cycle >>

\* time.sleep(0.05); continue   (inside the with block)
MjpegSleepLocked ==
    /\ Serving
    /\ mjpeg_pc = "sleep_locked"
    /\ frame_lock' = "free"
    /\ mjpeg_pc' = "idle"
    /\ UNCHANGED << config, effects, shutdown, skipped, pc, relay_status,
                    gpio, trigger_pin, counters, buf_held, waitvars, pulse,
                    web, obs_frame, obs_order, obs_cycle >>

\* cv2.imencode(latest_frame) inside the with block; the lock is released,
\* the encoded frame is yielded to the observer, time.sleep(0.033)
MjpegEncode ==
    /\ Serving
    /\ mjpeg_pc = "encode"
    /\ obs_frame' = latest_frame
    /\ obs_order' = "frame"
    /\ obs_cycle' = [f \in StatsFields |-> 0]
    /\ frame_lock' = "free"
    /\ mjpeg_pc' = "idle"
    /\ UNCHANGED << config, effects, shutdown, skipped, pc, relay_status,
                    gpio, trigger_pin, counters, buf_held, waitvars, pulse,
                    web >>

generate_mjpeg == MjpegLock \/ MjpegSleepLocked \/ MjpegEncode

\* api_stats: with stats_lock: return jsonify(live_stats), requested by an
\* observer that holds a frame of the stream
api_stats ==
    /\ Serving
    /\ obs_order = "frame"
    /\ obs_cycle' = stats_cycle
    /\ obs_order' = "both"
    /\ UNCHANGED << config, effects, shutdown, skipped, pc, relay_status,
                    gpio, trigger_pin, counters, buf_held, waitvars, pulse,
                    web, frame_lock, mjpeg_pc, obs_frame >>

\* ------------------------------------------------------- environment

\* Positions at which wait_for_resume_signal reads the trigger line next.
ReadPcs == {"wait_check", "wait_clear", "poll", "debounce"}

\* the operator's resume signal on the trigger input line; a change of the
\* line matters only before a read, so it is modelled there
TriggerChange ==
    /\ RELAY_ENABLED
    /\ pc \in ReadPcs
    /\ trigger_pin' = IF trigger_pin = HIGH THEN LOW ELSE HIGH
    /\ UNCHANGED << config, effects, shutdown, skipped, pc, relay_status,
                    gpio, counters, buf_held, waitvars, pulse, web,
                    frame_lock, observer >>

wait_for_resume_signal ==
    WaitEnter \/ WaitCheck \/ WaitClear \/ Poll \/ Debounce

MainLoop ==
    \/ LoopTop \/ AcquireOk \/ AcquireTimeout \/ ConvertAndFree \/ Predict
    \/ ProcessDetections \/ StartPulse \/ DefectWebFrame \/ DefectWebStats
    \/ wait_for_resume_signal \/ Resumed \/ FpsAndDisplay \/ Quit
    \/ PublishFrame \/ PublishStats \/ Interrupt \/ PredictError

Cleanup == CleanupRelayOff \/ GpioCleanup \/ Summary

Next ==
    \/ MainLoop
    \/ Cleanup
    \/ pulse_relay
    \/ generate_mjpeg
    \/ api_stats
    \/ TriggerChange

Spec == Init /\ [][Next]_vars

\* The pulse_relay threads are operating-system threads whose only blocking
\* statement is a finite time.sleep: a thread that can take its next step
\* eventually takes it.
FairSpec ==
    /\ Spec
    /\ WF_vars(PulseSetStatus)
    /\ WF_vars(PulseOn)
    /\ WF_vars(PulseOff)

\* The steps of wait_for_resume_signal and the statement after its return
\* are separated by finite sleeps only (TRIGGER_POLL_INTERVAL,
\* DEBOUNCE_DELAY): the main thread eventually takes each of them.
FairWaitSpec ==
    /\ Spec
    /\ WF_vars(Poll)
    /\ WF_vars(Debounce)
    /\ WF_vars(Resumed)

\* ----------------------------------------------------------- properties

InFlight == pulse["start"] + pulse["switch_on"] + pulse["hold"]

\* C1: with digital I/O, from the return of wait_for_resume_signal in a cycle
\* with detections up to the next acquisition, the wait has ended on
\* DEBOUNCE_COUNT + 1 consecutive HIGH reads of the trigger line (the poll
\* and the DEBOUNCE_COUNT confirmation samples) with no LOW read among them.
C1_ResumeOnlyAfterConfirmedTrigger ==
    (RELAY_ENABLED /\ defect_count > 0 /\ pc \in AfterWaitPcs)
        => active_run = DEBOUNCE_COUNT + 1

C1_Witness ==
    /\ RELAY_ENABLED
    /\ pc = "acquire"
    /\ defect_count > 0
    /\ frame_count >= 1
    /\ active_run = DEBOUNCE_COUNT + 1

\* C2 (as claimed): relay_status changes only along
\* DETECTING -> RELAY_ON -> WAITING_RESUME -> DETECTING.
C2_StatusFollowsCycle ==
    [][relay_status' # relay_status =>
          << relay_status, relay_status' >> \in
              { << "DETECTING", "RELAY_ON" >>,
                << "RELAY_ON", "WAITING_RESUME" >>,
                << "WAITING_RESUME", "DETECTING" >> }]_vars

\* C3: while the loop acquires a frame (waits for the image buffer or holds
\* it), relay_status is not WAITING_RESUME.
C3_NoAcquisitionWhileWaiting ==
    pc \in {"acquire", "convert"} => relay_status # "WAITING_RESUME"

C3_Witness ==
    /\ pc = "convert"
    /\ defect_frame_count > 0
    /\ InFlight > 0

\* C4: a LOW confirmation sample never lets wait_for_resume_signal return: the
\* loop goes back to polling; every confirmation starts with high_count = 0,
\* counts one per HIGH sample, and the wait returns only on the sample that
\* makes high_count reach DEBOUNCE_COUNT.
C4_FalseTriggerRestartsPolling ==
    [][/\ (pc = "debounce" /\ trigger_pin = LOW /\ pc' # pc)
            => pc' \in {"poll", "cleanup"}
       /\ (pc = "poll" /\ pc' = "debounce") => high_count' = 0
       /\ (pc = "debounce" /\ pc' \in {"debounce", "resumed"}
                           /\ high_count' # high_count)
            => (trigger_pin = HIGH /\ high_count' = high_count + 1)
       /\ (pc = "debounce" /\ pc' = "resumed")
            => (trigger_pin = HIGH /\ high_count' = DEBOUNCE_COUNT)]_vars

C4_Witness ==
    /\ pc = "poll"
    /\ trigger_pin = LOW
    /\ high_count \in 1..(DEBOUNCE_COUNT - 1)

\* C5: when the trigger line read HIGH on entry, wait_for_resume_signal
\* returns only after a LOW read, followed by DEBOUNCE_COUNT + 1 consecutive
\* HIGH reads (the poll and the confirmation samples).
C5_StaleSignalClearedFirst ==
    (RELAY_ENABLED /\ pc = "resumed" /\ initial = HIGH)
        => (saw_low /\ active_run > DEBOUNCE_COUNT)

C5_Witness ==
    /\ RELAY_ENABLED
    /\ pc = "resumed"
    /\ initial = HIGH
    /\ saw_low

\* C6 (as claimed): once the cleanup has forced the relay output HIGH (relay
\* OFF), the line is HIGH and stays HIGH.
C6_RelayOffAfterCleanup ==
    pc \in {"gpio_cleanup", "summary", "exited"} => relay_pin = HIGH

\* C7 (as claimed): an observer that obtains a frame and then the counters
\* never holds the frame of one cycle with the counters of another cycle.
C7_FrameWithItsCounters ==
    (obs_order = "both" /\ obs_cycle["frame_count"] >= 1)
        => obs_frame = obs_cycle["frame_count"]

\* C8 (as claimed): all fields of a counters snapshot returned to a reader
\* were written in the same inspection cycle.
C8_SnapshotOfOneCycle ==
    (obs_order = "both" /\ obs_cycle["frame_count"] >= 1)
        => \A f, g \in StatsFields : obs_cycle[f] = obs_cycle[g]

\* C9 (as claimed): with digital I/O, while a pulse_relay thread holds the
\* output line LOW (its HIGH write is still to come), no other pulse_relay
\* thread has been started.
C9_AtMostOnePulse ==
    (RELAY_ENABLED /\ pulse["hold"] > 0) => InFlight <= 1

\* C10 (as claimed): while a pulse thread holds the output line LOW (after its
\* LOW write, before its HIGH write) and the loop runs, relay_status is
\* RELAY_ON.
C10_RelayOnWhileHeld ==
    (RELAY_ENABLED /\ pc \in LoopPcs /\ pulse["hold"] > 0)
        => relay_status = "RELAY_ON"

\* C11: before the shutdown cleanup, while a pulse thread is in its hold period
\* (between its LOW write and its HIGH write) the output line is LOW: no
\* other write makes the line inactive during the hold.
C11_LineActiveForWholeHold ==
    (RELAY_ENABLED /\ pc \in LoopPcs /\ pulse["hold"] > 0) => relay_pin = LOW

\* C12: under fair scheduling of the pulse threads and before shutdown, the
\* started pulse threads all come to their end, and whenever no pulse thread
\* is in flight the output line is HIGH (relay off), also after pulses that
\* overlapped.
C12_PulsesCompleteAndLineInactive ==
    /\ [](( RELAY_ENABLED /\ pc \in LoopPcs /\ InFlight = 0) => relay_pin = HIGH)
    /\ (InFlight > 0) ~> (InFlight = 0 \/ pc \notin LoopPcs)

C12_Witness ==
    /\ RELAY_ENABLED
    /\ pc \in LoopPcs
    /\ defect_frame_count = 2
    /\ InFlight = 0
    /\ relay_pin = HIGH

\* C13 (as claimed): once the loop has resumed after a cycle with detections
\* and has published its snapshot, the published current_defects is 0.
C13_CounterClearedOnResume ==
    (ENABLE_WEB /\ pc = "top" /\ defect_count > 0)
        => live_stats.current_defects = 0

\* C13 (amended): the count is not cleared on the return of
\* wait_for_resume_signal: the first snapshot published after a resume reports
\* the detection count of the resumed cycle, together with its frame_count.
C13_FirstSnapshotKeepsCount ==
    (ENABLE_WEB /\ pc = "top" /\ defect_count > 0)
        => /\ live_stats.current_defects = defect_count
           /\ live_stats.frame_count = frame_count

C13_Witness ==
    /\ ENABLE_WEB
    /\ RELAY_ENABLED
    /\ pc = "top"
    /\ defect_count = 2
    /\ active_run = DEBOUNCE_COUNT + 1
    /\ live_stats.current_defects = 2
    /\ live_stats.relay_status = "DETECTING"

\* rows of the defect log written for frame f
RowsOfFrame(f) == Cardinality({i \in DOMAIN defect_log : defect_log[i] = f})

\* C14: the step that processes a frame with k > 0 detections appends exactly
\* k rows to the defect log, keeping the rows already there, and adds exactly
\* 1 to defect_frame_count; no other step changes either.  Hence, outside
\* that step, the log of a running loop holds for the inspected frame as
\* many rows as it had detections, and
\* defect_frame_count is the number of frames that have rows in the log.
C14_LogGrowsByDetections ==
    /\ [][ IF pc = "process" /\ pc' = "spawn"
           THEN /\ defect_count > 0
                /\ Len(defect_log') = Len(defect_log) + defect_count
                /\ SubSeq(defect_log', 1, Len(defect_log)) = defect_log
                /\ defect_frame_count' = defect_frame_count + 1
           ELSE /\ defect_log' = defect_log
                /\ defect_frame_count' = defect_frame_count ]_vars
    /\ []( (pc \in LoopPcs \ {"predict", "process"} /\ frame_count >= 1)
              => RowsOfFrame(frame_count) = defect_count )
    /\ []( defect_frame_count =
              Cardinality({defect_log[i] : i \in DOMAIN defect_log}) )

C14_Witness ==
    /\ pc = "spawn"
    /\ frame_count = 2
    /\ defect_count = 2
    /\ defect_frame_count = 2
    /\ defect_log = << 1, 2, 2 >>

\* C15: in every step taken while the loop is in a cycle whose frame had no
\* detection (from the prediction to the publication), relay_status is and
\* stays DETECTING, the defect log and defect_frame_count are unchanged, no
\* pulse thread is started, the loop does not enter wait_for_resume_signal,
\* and the snapshot it publishes reports current_defects = 0.
C15_ZeroDetectionCycleIsQuiet ==
    [][ (frame_count >= 1 /\ defect_count = 0
            /\ pc \in {"fps", "pub_frame", "pub_stats"})
        => /\ relay_status = "DETECTING" /\ relay_status' = "DETECTING"
           /\ defect_log' = defect_log
           /\ defect_frame_count' = defect_frame_count
           /\ pulse'["start"] <= pulse["start"]
           /\ pc' \in {"fps", "pub_frame", "pub_stats", "top", "cleanup"}
           /\ (pc' = "top" /\ ENABLE_WEB => live_stats'.current_defects = 0) ]_vars

\* C16: without digital I/O relay_status never takes the value
\* WAITING_RESUME, and the loop is never at a waiting position of
\* wait_for_resume_signal.
C16_NoWaitingStatusWithoutGpio ==
    ~RELAY_ENABLED
        => /\ relay_status # "WAITING_RESUME"
           /\ pc \notin {"wait_clear", "poll", "debounce"}

\* C17: without digital I/O no GPIO call is ever made (the trigger line is
\* not read, the output line is not written and keeps its level), the loop is
\* never at a polling position of wait_for_resume_signal, and from the entry
\* of wait_for_resume_signal its next step is the return to the loop.
C17_NoGpioNoWaitNoWrite ==
    /\ []( ~RELAY_ENABLED
             => /\ ~gpio_used
                /\ relay_pin = HIGH
                /\ pc \notin {"wait_clear", "poll", "debounce"}
                /\ high_count = 0 )
    /\ [][ (~RELAY_ENABLED /\ pc = "wait_check" /\ pc' # pc)
             => pc' \in {"resumed", "cleanup"} ]_vars

C17_Witness ==
    /\ ~RELAY_ENABLED
    /\ pc = "acquire"
    /\ frame_count = 1
    /\ defect_count > 0
    /\ pulse = [x \in PulsePcs |-> 0]
    /\ ~gpio_used

\* C18: a failed acquisition takes the loop back to its top with frame_count,
\* the detection count, the defect log, defect_frame_count, the published
\* frame and counters and the pulse threads all unchanged, and the loop is
\* then at its top or at the next acquisition: it has not terminated.
C18_FailedAcquisitionSkipsCycle ==
    /\ [][ (pc = "acquire" /\ pc' # pc /\ skipped')
             => /\ pc' = "top"
                /\ UNCHANGED << counters, buf_held, web, pulse >> ]_vars
    /\ [](skipped => pc \in {"top", "acquire"})

C18_Witness ==
    /\ skipped
    /\ pc = "acquire"
    /\ ENABLE_WEB
    /\ frame_count = 1
    /\ live_stats.frame_count = 1

\* C19: whenever the process has ended, however the loop was left, the
\* shutdown sequence has run: the GPIO cleanup (which follows the forced
\* HIGH write of the relay line) is done when digital I/O is in use, the
\* camera is released, the summary is printed, and the CSV file holds the
\* whole defect log.
C19_ShutdownAlwaysRuns ==
    pc \in {"exited", "crashed"}
        => /\ (RELAY_ENABLED => ~gpio_setup)
           /\ ~cam_open
           /\ summary_printed
           /\ csv_log = defect_log

\* C20: whenever frame_lock is held, its holder is neither sleeping nor
\* encoding an image.
C20_FrameLockOnlyForCopy ==
    frame_lock = "mjpeg" => mjpeg_pc \notin {"sleep_locked", "encode"}

\* values of relay_status listed where it is declared
RelayStatusValues == {"DETECTING", "DEFECT_STOP", "RELAY_ON", "WAITING_RESUME"}

\* C21 (as claimed): the relay_status field of live_stats is always one of
\* DETECTING, RELAY_ON, WAITING_RESUME.
C21_SnapshotStatusOneOfThree ==
    live_stats.relay_status \in {"DETECTING", "RELAY_ON", "WAITING_RESUME"}

\* C21 (amended): the relay_status field of live_stats is always one of the
\* four values DETECTING, DEFECT_STOP, RELAY_ON, WAITING_RESUME; DEFECT_STOP
\* is stored only in live_stats, never in the relay_status variable that
\* set_relay_status writes.
C21_SnapshotStatusOneOfFour ==
    /\ live_stats.relay_status \in RelayStatusValues
    /\ relay_status \in RelayStatusValues \ {"DEFECT_STOP"}

C21_Witness ==
    /\ Serving
    /\ pc \in ReadPcs
    /\ live_stats.relay_status = "DEFECT_STOP"
    /\ relay_status = "WAITING_RESUME"

\* C22: once the defect actions of a cycle are over, defect_frame_count is
\* the number of image files written: one per frame with detections, none
\* for a frame without.
C22_SavedCountIsImagesWritten ==
    pc \in AfterWaitPcs => saved_images = defect_frame_count

\* C23: as long as no field of live_stats has been written by the loop, a
\* read of live_stats yields the initial zero state; as long as no frame has
\* been published, latest_frame is None, the stream reader never reaches
\* the encoding of a frame and the observer has received no image.
C23_ZeroStateBeforePublication ==
    /\ (\A f \in StatsFields : stats_cycle[f] = 0) => live_stats = LiveStatsInit
    /\ latest_frame = None => (mjpeg_pc # "encode" /\ obs_frame = None)
    /\ (pc \in LoopPcs /\ latest_frame # None)
          => (ENABLE_WEB /\ frame_count >= 1 /\ latest_frame \in 1..frame_count)

C23_Witness ==
    /\ ENABLE_WEB
    /\ frame_count = 1
    /\ pc = "pub_frame"
    /\ latest_frame = None
    /\ mjpeg_pc = "sleep_locked"
    /\ live_stats = LiveStatsInit

\* C24: when the loop is about to enter, is inside or has just left
\* wait_for_resume_signal, the pulse thread of the cycle has been started
\* (one thread per frame with detections so far); and whatever the pulse
\* threads are doing, the loop can take its step into wait_for_resume_signal, its step
\* out of it and the first step of the next cycle.
C24_LoopNeverWaitsForPulse ==
    /\ pc \in {"wait_enter", "resumed"} \cup ReadPcs
          => (pulses_started >= 1 /\ pulses_started = defect_frame_count)
    /\ pc = "wait_enter" => ENABLED WaitEnter
    /\ pc = "wait_check" => ENABLED WaitCheck
    /\ pc = "resumed" => ENABLED Resumed
    /\ pc = "top" => ENABLED LoopTop

C24_Witness ==
    /\ RELAY_ENABLED
    /\ pc = "acquire"
    /\ frame_count = 1
    /\ defect_count > 0
    /\ active_run = DEBOUNCE_COUNT + 1
    /\ pulses_started = 1
    /\ pulse["hold"] = 1
    /\ relay_pin = LOW

\* C25: with digital I/O and a fairly scheduled main thread, the loop does
\* not stay in the poll/debounce loop of wait_for_resume_signal for ever
\* unless the trigger line is LOW again and again: if from some point on the
\* line is HIGH at every read, the function returns; after its return
\* relay_status is set to DETECTING;
\* and the function returns only after reads of HIGH (there is no timeout).
C25_WaitReturnsOnSustainedHigh ==
    /\ \/ []<>(~(RELAY_ENABLED /\ pc \in {"poll", "debounce"}))
       \/ []<>(trigger_pin = LOW)
    /\ (pc = "resumed")
          ~> (pc \notin LoopPcs \/ (pc = "fps" /\ relay_status = "DETECTING"))
    /\ []((RELAY_ENABLED /\ pc = "resumed") => active_run >= DEBOUNCE_COUNT)

C25_Witness ==
    /\ RELAY_ENABLED
    /\ pc = "fps"
    /\ defect_count > 0
    /\ initial = LOW
    /\ trigger_pin = HIGH
    /\ active_run = DEBOUNCE_COUNT + 1
    /\ relay_status = "DETECTING"

\* C26: the camera buffer is taken only by a successful acquisition and given
\* back only by the release that follows the copy, which frees a buffer that
\* is held; inside the loop the buffer is held only between the two, so it
\* is released before the prediction and before the next acquisition; a
\* failed acquisition takes no buffer and releases none.
C26_BufferReleasedBeforePredict ==
    /\ []((pc \in LoopPcs /\ buf_held) => pc = "convert")
    /\ [][ /\ buf_held' # buf_held
              => \/ pc = "acquire" /\ pc' = "convert" /\ buf_held'
                 \/ pc = "convert" /\ pc' = "predict" /\ buf_held
           /\ (pc = "convert" /\ pc' = "predict") => (buf_held /\ ~buf_held')
           /\ (pc = "acquire" /\ pc' = "convert") => (~buf_held /\ buf_held')
           /\ (pc = "acquire" /\ pc' = "top") => (~buf_held /\ ~buf_held') ]_vars

C26_Witness ==
    /\ pc = "predict"
    /\ frame_count = 2
    /\ ~buf_held

C28_LineActiveOnlyDuringHold ==
    /\ (pc \in LoopPcs /\ relay_pin = LOW) => (RELAY_ENABLED /\ pulse["hold"] > 0)
    /\ pulses_started = 0 => relay_pin = HIGH

C28_Witness ==
    /\ pc \in LoopPcs
    /\ relay_pin = LOW
    /\ pulse["hold"] = 1
    /\ pulse["start"] = 0
    /\ pulse["switch_on"] = 0
    /\ pulses_started = 2

\* C29: when the loop is about to acquire a frame and when it is about to
\* publish the counters at the end of a cycle, relay_status is DETECTING.
C29_DetectingAtAcquireAndPublish ==
    pc \in {"acquire", "pub_stats"} => relay_status = "DETECTING"

\* C30: defect_frame_count never exceeds frame_count nor the length of the
\* defect log, in the loop's variables and in the published live_stats, and
\* no step lowers the published frame_count, total_defects or
\* defect_frames_saved.
C30_CountersOrderedAndMonotonic ==
    /\ [](/\ defect_frame_count <= frame_count
          /\ defect_frame_count <= Len(defect_log)
          /\ live_stats.defect_frames_saved <= live_stats.frame_count
          /\ live_stats.defect_frames_saved <= live_stats.total_defects)
    /\ [][ /\ live_stats'.frame_count >= live_stats.frame_count
           /\ live_stats'.total_defects >= live_stats.total_defects
           /\ live_stats'.defect_frames_saved >= live_stats.defect_frames_saved
           /\ frame_count' >= frame_count
           /\ Len(defect_log') >= Len(defect_log)
           /\ defect_frame_count' >= defect_frame_count ]_vars

C30_Witness ==
    /\ pc = "top"
    /\ live_stats.frame_count = 2
    /\ live_stats.defect_frames_saved = 1
    /\ live_stats.total_defects = 2
====
